---- MODULE Spec2Model ----
(***************************************************************************)
(* A model of the CSIRAC virtual machine: the 20-bit Word type (word.go)   *)
(* and the fetch-decode-execute engine (Run, Step, ReadSource, WriteDest). *)
(*                                                                         *)
(* A Word is a Go uint32.  It is modelled as a natural number; every       *)
(* operation is computed as the Go code computes it on uint32 as long as   *)
(* the result stays below WordCap, and a Step that would carry S to        *)
(* WordCap or beyond is not taken (see StepFits).                          *)
(***************************************************************************)
EXTENDS Integers, Sequences, FiniteSets, TLC

(* ------------------------------------------------------------------ *)
(* Bounds of the model                                                  *)
(* ------------------------------------------------------------------ *)

\* Run executes at most this many Steps in one behaviour.
MaxSteps == 64

\* Values of the sequence register are followed up to this cap.
WordCap == 1073741824

(* ------------------------------------------------------------------ *)
(* Bit operations of Go on unsigned integers                            *)
(* ------------------------------------------------------------------ *)

RECURSIVE BitOp(_, _, _)
\* The bitwise operation with truth table f (f[x][y] for bits x and y), bit
\* by bit
BitOp(f, a, b) ==
    IF a = 0 /\ b = 0 THEN 0
    ELSE f[a % 2][b % 2] + 2 * BitOp(f, a \div 2, b \div 2)

AndBit == [x \in 0 .. 1 |-> [y \in 0 .. 1 |-> x * y]]
OrBit == [x \in 0 .. 1 |-> [y \in 0 .. 1 |-> IF x + y > 0 THEN 1 ELSE 0]]
XorBit == [x \in 0 .. 1 |-> [y \in 0 .. 1 |-> (x + y) % 2]]

\* The three operations on five bits at a time
AndTable == [x \in 0 .. 31 |-> [y \in 0 .. 31 |-> BitOp(AndBit, x, y)]]
OrTable == [x \in 0 .. 31 |-> [y \in 0 .. 31 |-> BitOp(OrBit, x, y)]]
XorTable == [x \in 0 .. 31 |-> [y \in 0 .. 31 |-> BitOp(XorBit, x, y)]]

RECURSIVE BitAnd(_, _)
\* a & b
BitAnd(a, b) ==
    IF a = 0 \/ b = 0 THEN 0
    ELSE AndTable[a % 32][b % 32] + 32 * BitAnd(a \div 32, b \div 32)

RECURSIVE BitOr(_, _)
\* a | b
BitOr(a, b) ==
    IF a = 0 THEN b
    ELSE IF b = 0 THEN a
    ELSE OrTable[a % 32][b % 32] + 32 * BitOr(a \div 32, b \div 32)

RECURSIVE BitXor(_, _)
\* a ^ b
BitXor(a, b) ==
    IF a = 0 THEN b
    ELSE IF b = 0 THEN a
    ELSE XorTable[a % 32][b % 32] + 32 * BitXor(a \div 32, b \div 32)

\* a &^ b
BitAndNot(a, b) == a - BitAnd(a, b)

\* w >> n
Shr(w, n) == w \div (2 ^ n)

\* w << n, for results that fit the model's range
Shl(w, n) == w * (2 ^ n)

(* ------------------------------------------------------------------ *)
(* word.go                                                              *)
(* ------------------------------------------------------------------ *)

allBits == 1048575
lo10 == 1023
hi10 == 1047552
signBit == 524288
sourceMask == 992
destMask == 31

\* func P(n int) Word { return 1 << (n - 1) }
P(n) == Shl(1, n - 1)

\* func IntWord(x int) Word { return Word(x) & allBits }
IntWord(x) == x % (allBits + 1)

\* func (w Word) P(n int) Word: the Pn bit of w as 0 or 1
WordP(w, n) == Shr(BitAnd(w, Shl(1, n - 1)), n - 1)

\* A variant of Lo that keeps nine bits
LoNineBits(w) == BitAnd(w, 511)

\* func (w Word) Lo() Word { return w & lo10 }
Lo(w) == BitAnd(w, lo10)

\* A variant of Hi that shifts without masking
HiUnmasked(w) == Shr(w, 10)

\* func (w Word) Hi() Word { return (w & hi10) >> 10 }
Hi(w) == Shr(BitAnd(w, hi10), 10)

\* func (w Word) Source() Word { return (w & sourceMask) >> 5 }
Source(w) == Shr(BitAnd(w, sourceMask), 5)

\* A variant of Dest that takes bits 16-20
DestOfTopBits(w) == BitAnd(Shr(w, 15), 31)

\* func (w Word) Dest() Word { return w & destMask }
Dest(w) == BitAnd(w, destMask)

\* sourceToMnemonic [32]string, indexed from 0 in Go and from 1 here
sourceToMnemonic ==
    << "M", "I", "NA", "NB", "A",
       "SA", "HA", "TA", "LA", "CA",
       "ZA", "B", "R", "RB", "C",
       "SC", "RC", "D", "SD", "RD",
       "Z", "HL", "HU", "S", "PE",
       "PL", "K", "MA", "MB", "MC",
       "MD", "PS" >>

\* destToMnemonic [32]string, indexed from 0 in Go and from 1 here
destToMnemonic ==
    << "M", "Q", "OT", "OP", "A",
       "PA", "SA", "CA", "DA", "NA",
       "P", "B", "XB", "L", "C",
       "PC", "SC", "D", "PD", "SD",
       "Z", "HL", "HU", "S", "PS",
       "CS", "PK", "MA", "MB", "MC",
       "MD", "T" >>

\* mnemonicToSource map[string]int
mnemonicToSource ==
    [m \in { "M", "I", "NA", "NB", "A", "SA", "HA", "TA", "LA", "CA",
             "ZA", "B", "R", "RB", "C", "SC", "RC", "D", "SD", "RD",
             "Z", "HL", "HU", "S", "PE", "PL", "K", "MA", "MB", "MC",
             "MD", "PS" } |->
        CASE m = "M" -> 0 [] m = "I" -> 1 [] m = "NA" -> 2 [] m = "NB" -> 3
          [] m = "A" -> 4 [] m = "SA" -> 5 [] m = "HA" -> 6 [] m = "TA" -> 7
          [] m = "LA" -> 8 [] m = "CA" -> 9 [] m = "ZA" -> 10 [] m = "B" -> 11
          [] m = "R" -> 12 [] m = "RB" -> 13 [] m = "C" -> 14 [] m = "SC" -> 15
          [] m = "RC" -> 16 [] m = "D" -> 17 [] m = "SD" -> 18 [] m = "RD" -> 19
          [] m = "Z" -> 20 [] m = "HL" -> 21 [] m = "HU" -> 22 [] m = "S" -> 23
          [] m = "PE" -> 24 [] m = "PL" -> 25 [] m = "K" -> 26 [] m = "MA" -> 27
          [] m = "MB" -> 28 [] m = "MC" -> 29 [] m = "MD" -> 30 [] m = "PS" -> 31]

\* mnemonicToDest map[string]int
mnemonicToDest ==
    [m \in { "M", "Q", "OT", "OP", "A", "PA", "SA", "CA", "DA", "NA",
             "P", "B", "XB", "L", "C", "PC", "SC", "D", "PD", "SD",
             "Z", "HL", "HU", "S", "PS", "CS", "PK", "MA", "MB", "MC",
             "MD", "T" } |->
        CASE m = "M" -> 0 [] m = "Q" -> 1 [] m = "OT" -> 2 [] m = "OP" -> 3
          [] m = "A" -> 4 [] m = "PA" -> 5 [] m = "SA" -> 6 [] m = "CA" -> 7
          [] m = "DA" -> 8 [] m = "NA" -> 9 [] m = "P" -> 10 [] m = "B" -> 11
          [] m = "XB" -> 12 [] m = "L" -> 13 [] m = "C" -> 14 [] m = "PC" -> 15
          [] m = "SC" -> 16 [] m = "D" -> 17 [] m = "PD" -> 18 [] m = "SD" -> 19
          [] m = "Z" -> 20 [] m = "HL" -> 21 [] m = "HU" -> 22 [] m = "S" -> 23
          [] m = "PS" -> 24 [] m = "CS" -> 25 [] m = "PK" -> 26 [] m = "MA" -> 27
          [] m = "MB" -> 28 [] m = "MC" -> 29 [] m = "MD" -> 30 [] m = "T" -> 31]

\* The decimal digits as fmt prints them
Digit == << "0", "1", "2", "3", "4", "5", "6", "7", "8", "9" >>

RECURSIVE Decimal(_)
\* fmt's %d of the unsigned value n: its decimal digits, a sequence of
\* characters
Decimal(n) ==
    IF n < 10 THEN << Digit[n + 1] >>
    ELSE Append(Decimal(n \div 10), Digit[(n % 10) + 1])

\* fmt's %2d of n: the decimal digits, with a space in front of a single one
Pad2(n) == IF n < 10 THEN << " " >> \o Decimal(n) ELSE Decimal(n)

\* func (w Word) String() string:
\*   fmt.Sprintf("(%2d,%2d,%2d,%2d)", w>>15, (w>>10)&0x1f, (w>>5)&0x1f, w&0x1f)
WordString(w) ==
    << "(" >> \o Pad2(Shr(w, 15)) \o << "," >> \o Pad2(BitAnd(Shr(w, 10), 31))
        \o << "," >> \o Pad2(BitAnd(Shr(w, 5), 31))
        \o << "," >> \o Pad2(BitAnd(w, 31)) \o << ")" >>

\* The arguments InstructionString passes to Sprintf:
\* w>>15, (w>>10)&0x1f, sourceToMnemonic[w.Source()], destToMnemonic[w.Dest()]
InstructionFields(w) ==
    << Shr(w, 15), BitAnd(Shr(w, 10), 31),
       sourceToMnemonic[Source(w) + 1], destToMnemonic[Dest(w) + 1] >>

\* The mnemonics of one letter
OneLetter == {"M", "I", "A", "B", "R", "C", "D", "Z", "S", "K", "Q", "P", "L", "T"}

\* fmt's %2s of the mnemonic s: a space in front of a single letter.  A
\* mnemonic is one element of the line.
Pad2s(s) == IF s \in OneLetter THEN << " ", s >> ELSE << s >>

\* func (w Word) InstructionString() string:
\*   fmt.Sprintf("%2d %2d %2s %2s", ...)
\* The line as a sequence of characters (digits and spaces) and mnemonics.
InstructionString(w) ==
    LET f == InstructionFields(w)
    IN  Pad2(f[1]) \o << " " >> \o Pad2(f[2]) \o << " " >> \o Pad2s(f[3])
            \o << " " >> \o Pad2s(f[4])

\* The length of the run of elements other than spaces that starts line
WordEnd(line) ==
    IF \E i \in 1 .. Len(line) : line[i] = " "
    THEN (CHOOSE i \in 1 .. Len(line) :
            line[i] = " " /\ \A j \in 1 .. i - 1 : line[j] # " ") - 1
    ELSE Len(line)

RECURSIVE Split(_)
\* The space-separated words of line, as fmt.Sscan reads them one after the
\* other
Split(line) ==
    IF line = << >> THEN << >>
    ELSE IF Head(line) = " " THEN Split(Tail(line))
    ELSE << SubSeq(line, 1, WordEnd(line)) >>
            \o Split(SubSeq(line, WordEnd(line) + 1, Len(line)))

\* Whether Sscan reads the word g as an int: digits, after an optional sign
IsNumber(g) ==
    LET digits == IF Head(g) = "-" THEN Tail(g) ELSE g
    IN  /\ digits # << >>
        /\ \A i \in 1 .. Len(digits) : \E v \in 1 .. 10 : Digit[v] = digits[i]

RECURSIVE Unsigned(_)
\* The value of a sequence of digits
Unsigned(digits) ==
    IF digits = << >> THEN 0
    ELSE 10 * Unsigned(SubSeq(digits, 1, Len(digits) - 1))
            + (CHOOSE v \in 0 .. 9 : Digit[v + 1] = digits[Len(digits)])

\* The int Sscan reads from the word g
Number(g) == IF Head(g) = "-" THEN 0 - Unsigned(Tail(g)) ELSE Unsigned(g)

\* The string Sscan reads from the word g: the mnemonic it consists of, and a
\* string that is no mnemonic for anything else
Text(g) == IF Len(g) = 1 THEN g[1] ELSE "?"

\* fmt.Sscan(k, &n0, &n1, &s, &d): the four values, and whether there was no
\* error (four words, the first two of them numbers)
Sscan(k) ==
    LET g == Split(k)
    IN  IF Len(g) < 4 \/ ~IsNumber(g[1]) \/ ~IsNumber(g[2])
        THEN [ok |-> FALSE, fields |-> << >>]
        ELSE [ok |-> TRUE,
              fields |-> << Number(g[1]), Number(g[2]), Text(g[3]), Text(g[4]) >>]

\* A variant of ParseInstruction that takes a first number up to 32
ParseInstructionTo32(k) ==
    LET n0 == k[1]
        n1 == k[2]
        s == k[3]
        d == k[4]
    IN  IF n0 < 0 \/ n0 > 32 THEN [w |-> 0, err |-> "first number out of range"]
        ELSE IF n1 < 0 \/ n1 > 31 THEN [w |-> 0, err |-> "second number out of range"]
        ELSE IF s \notin DOMAIN mnemonicToSource THEN [w |-> 0, err |-> "invalid source"]
        ELSE IF d \notin DOMAIN mnemonicToDest THEN [w |-> 0, err |-> "invalid destination"]
        ELSE [w |-> Shl(n0, 15) + Shl(n1, 10) + Shl(mnemonicToSource[s], 5)
                        + mnemonicToDest[d],
              err |-> "nil"]

\* ParseInstruction on a line already scanned into its four fields
\* <<n0, n1, s, d>>: the word and whether an error is returned.
ParseInstruction(k) ==
    LET n0 == k[1]
        n1 == k[2]
        s == k[3]
        d == k[4]
    IN  IF n0 < 0 \/ n0 > 31 THEN [w |-> 0, err |-> "first number out of range"]
        ELSE IF n1 < 0 \/ n1 > 31 THEN [w |-> 0, err |-> "second number out of range"]
        ELSE IF s \notin DOMAIN mnemonicToSource THEN [w |-> 0, err |-> "invalid source"]
        ELSE IF d \notin DOMAIN mnemonicToDest THEN [w |-> 0, err |-> "invalid destination"]
        ELSE [w |-> Shl(n0, 15) + Shl(n1, 10) + Shl(mnemonicToSource[s], 5)
                        + mnemonicToDest[d],
              err |-> "nil"]

\* func ParseInstruction(k string) (Word, error) on the line k: Sscan, and
\* what ParseInstruction does with the four values
ParseLine(k) ==
    LET r == Sscan(k)
    IN  IF ~r.ok THEN [w |-> 0, err |-> "scan"] ELSE ParseInstruction(r.fields)

\* MustParseInstruction: the parsed word (the test programs all parse)
MustParseInstruction(k) == ParseInstruction(k).w

(* ------------------------------------------------------------------ *)
(* The machine state: type CSIRAC struct                                *)
(* ------------------------------------------------------------------ *)

\* c is the CSIRAC struct: a record with the fields A, B, C, H, D, S, K, I,
\* NA, NB, M, MA, MB, MC, MD and, for the three output callbacks Printer,
\* TapePunch and Loudspeaker, whether the callback is set (non-nil).
VARIABLES
    c,          \* the machine
    pre,        \* the registers as they were before the last Step
    sent,       \* the word the last Step read from its source
    idx,        \* the array accesses <<array, index>> the last Step made
    err,        \* what the last Step returned: "none", "nil", "ErrStop", "panic"
    out,        \* the calls made to the output callbacks, in order
    traceOut,   \* the values of the last line Run printed, <<>> if none
    period,     \* Run's period argument
    trace,      \* Run's trace argument
    pc,         \* where Run is: "running", "returned", "panicked"
    ret,        \* what Run returned: "none" while it has not returned
    steps,      \* the number of Steps Run has executed
    prog        \* the program loaded at construction

vars == << c, pre, sent, idx, err, out, traceOut, period, trace, pc, ret, steps, prog >>

StoreRange == 0 .. 1023
DRange == 0 .. 15

\* arr[i] as Go evaluates it when i is in range (an index out of range has no
\* value in Go; the access is recorded in idx)
At(arr, i) == IF i \in DOMAIN arr THEN arr[i] ELSE 0

\* arr[i] = v
Put(arr, i, v) == IF i \in DOMAIN arr THEN [arr EXCEPT ![i] = v] ELSE arr

\* A variant of StoreAddr that takes the lower half
StoreAddrLo(w) == Lo(w)

\* The index expression of a store access: c.K.Hi(), inst.Hi(), c.S.Hi()
StoreAddr(w) == Hi(w)

\* A variant of DIndex without the &0xF
DIndexUnmasked(w) == Hi(w)

\* The index expression of a D register access: c.K.Hi()&0xF
DIndex(w) == BitAnd(Hi(w), 15)

(* ------------------------------------------------------------------ *)
(* ReadSource                                                           *)
(* ------------------------------------------------------------------ *)

\* A variant of SourceSA that moves the sign bit to bit 1
SourceSANormalized(m) == WordP(m.A, 20)

\* case 5: return c.A & signBit
SourceSA(m) == BitAnd(m.A, signBit)

\* A variant of SourceHA that shifts in a zero
SourceHALogical(m) == Shr(m.A, 1)

\* case 6: return (c.A >> 1) | (c.A & signBit)
SourceHA(m) == BitOr(Shr(m.A, 1), BitAnd(m.A, signBit))

\* case 7: return (c.A << 1) & allBits
SourceTA(m) == BitAnd(Shl(m.A, 1), allBits)

\* case 10: 0 if c.A == 0, else 1
SourceZA(m) == IF m.A = 0 THEN 0 ELSE 1

\* case 12: return c.B.P(20)
SourceR(m) == WordP(m.B, 20)

\* A variant of SourceHU that does not shift
SourceHUUnshifted(m) == m.H

\* case 22: return c.H << 10
SourceHU(m) == Shl(m.H, 10)

\* A variant of SourceK that gives the upper half right-justified
SourceKHi(m) == Hi(m.K)

\* case 26: return c.K & hi10
SourceK(m) == BitAnd(m.K, hi10)

\* The word ReadSource returns
SourceValue(m) ==
    LET s == Source(m.K)
    IN  CASE s = 0 -> At(m.M, StoreAddr(m.K))
          [] s = 1 -> m.I
          [] s = 2 -> m.NA
          [] s = 3 -> m.NB
          [] s = 4 -> m.A
          [] s = 5 -> SourceSA(m)
          [] s = 6 -> SourceHA(m)
          [] s = 7 -> SourceTA(m)
          [] s = 8 -> BitAnd(m.A, 1)
          [] s = 9 -> m.A
          [] s = 10 -> SourceZA(m)
          [] s = 11 -> m.B
          [] s = 12 -> SourceR(m)
          [] s = 13 -> Shr(m.B, 1)
          [] s = 14 -> m.C
          [] s = 15 -> BitAnd(m.C, signBit)
          [] s = 16 -> Shr(m.C, 1)
          [] s = 17 -> At(m.D, DIndex(m.K))
          [] s = 18 -> BitAnd(At(m.D, DIndex(m.K)), signBit)
          [] s = 19 -> Shr(At(m.D, DIndex(m.K)), 1)
          [] s = 20 -> 0
          [] s = 21 -> m.H
          [] s = 22 -> SourceHU(m)
          [] s = 23 -> m.S
          [] s = 24 -> P(11)
          [] s = 25 -> 1
          [] s = 26 -> SourceK(m)
          [] s = 27 -> At(m.MA, StoreAddr(m.K))
          [] s = 28 -> At(m.MB, StoreAddr(m.K))
          [] s = 29 -> At(m.MC, StoreAddr(m.K))
          [] s = 30 -> At(m.MD, StoreAddr(m.K))
          [] s = 31 -> signBit

\* The array accesses ReadSource makes
SourceIdx(m) ==
    LET s == Source(m.K)
    IN  CASE s = 0 -> { << "M", StoreAddr(m.K) >> }
          [] s \in 17 .. 19 -> { << "D", DIndex(m.K) >> }
          [] s = 27 -> { << "MA", StoreAddr(m.K) >> }
          [] s = 28 -> { << "MB", StoreAddr(m.K) >> }
          [] s = 29 -> { << "MC", StoreAddr(m.K) >> }
          [] s = 30 -> { << "MD", StoreAddr(m.K) >> }
          [] OTHER -> {}

\* A variant of SourceState in which no source changes the machine
SourceStateKeepsA(m) == m

\* The machine after ReadSource: case 9 clears A
SourceState(m) == IF Source(m.K) = 9 THEN [m EXCEPT !.A = 0] ELSE m

\* func (c *CSIRAC) ReadSource() Word: the word returned (val), the machine
\* afterwards (c) and the array accesses made (idx)
ReadSource(m) ==
    [val |-> SourceValue(m), c |-> SourceState(m), idx |-> SourceIdx(m)]

(* ------------------------------------------------------------------ *)
(* WriteDest                                                            *)
(* ------------------------------------------------------------------ *)

\* A variant of SubMasked that stops at zero
SubSaturating(a, b) == IF a < b THEN 0 ELSE a - b

\* (a - b) & allBits on uint32: the difference wraps modulo 2^32 and the mask
\* keeps its low 20 bits
SubMasked(a, b) == (a - b) % (allBits + 1)

\* The i-th base-1024 digit of x
Limb(x, i) == (x \div (1024 ^ i)) % 1024

\* The low 40 bits of the uint64 product x * y as four base-1024 digits
\* <<p0, p1, p2, p3>>, by long multiplication
Product(x, y) ==
    LET s0 == Limb(x, 0) * Limb(y, 0)
        s1 == Limb(x, 0) * Limb(y, 1) + Limb(x, 1) * Limb(y, 0) + (s0 \div 1024)
        s2 == Limb(x, 0) * Limb(y, 2) + Limb(x, 1) * Limb(y, 1)
                + Limb(x, 2) * Limb(y, 0) + (s1 \div 1024)
        s3 == Limb(x, 0) * Limb(y, 3) + Limb(x, 1) * Limb(y, 2)
                + Limb(x, 2) * Limb(y, 1) + Limb(x, 3) * Limb(y, 0) + (s2 \div 1024)
    IN  << s0 % 1024, s1 % 1024, s2 % 1024, s3 % 1024 >>

\* Word(prod >> 19) & allBits: bits 20..39 of the product
ProductHigh(p) == (p[2] \div 512) + p[3] * 2 + (p[4] % 512) * 2048

\* Word(prod << 1) & allBits: bits 1..19 of the product, moved up by one
ProductLow(p) == (p[1] + (p[2] % 512) * 1024) * 2

\* A variant of DestXB that takes the sign of the product from src alone
DestXBSrcSign(m, src) ==
    LET sign == BitAnd(src, signBit)
        prod == Product(BitAndNot(src, signBit), BitAndNot(m.C, signBit))
    IN  [m EXCEPT !.A = BitAnd(m.A + sign + ProductHigh(prod), allBits),
                  !.B = ProductLow(prod)]

\* case 12 (XB):
\*   sign := (src & signBit) ^ (c.C & signBit)
\*   prod := uint64(src&^signBit) * uint64(c.C&^signBit)
\*   c.A = (c.A + sign + Word(prod>>19)) & allBits
\*   c.B = Word(prod<<1) & allBits
DestXB(m, src) ==
    LET sign == BitXor(BitAnd(src, signBit), BitAnd(m.C, signBit))
        prod == Product(BitAndNot(src, signBit), BitAndNot(m.C, signBit))
    IN  [m EXCEPT !.A = BitAnd(m.A + sign + ProductHigh(prod), allBits),
                  !.B = ProductLow(prod)]

\* n := (src.Hi()>>1)&0xf + 1
ShiftCount(src) == BitAnd(Shr(Hi(src), 1), 15) + 1

\* (w << n) & allBits for a uint32 w and 1 <= n <= 16
ShlLow(w, n) == (w % (2 ^ (20 - n))) * (2 ^ n)

\* (w << n) >> 20 for a uint32 w and 1 <= n <= 16: the shift drops the bits
\* that leave the 32-bit word
ShlHigh(w, n) == (IF 32 - n >= 31 THEN w ELSE w % (2 ^ (32 - n))) \div (2 ^ (20 - n))

\* A variant of DestL that shifts whatever bit 20 of src is
DestLAlways(m, src) ==
    LET n == ShiftCount(src)
    IN  [m EXCEPT !.A = BitAnd(ShlLow(m.A, n) + ShlHigh(m.B, n), allBits),
                  !.B = BitAnd(ShlLow(m.B, n) + ShlHigh(m.A, n), allBits)]

\* case 13 (L):
\*   if src.P(20) != 1 { break }
\*   a := c.A << n ; b := c.B << n
\*   c.A = (a + (b >> 20)) & allBits
\*   c.B = (b + (a >> 20)) & allBits
DestL(m, src) ==
    IF WordP(src, 20) # 1 THEN m
    ELSE LET n == ShiftCount(src)
         IN  [m EXCEPT !.A = BitAnd(ShlLow(m.A, n) + ShlHigh(m.B, n), allBits),
                       !.B = BitAnd(ShlLow(m.B, n) + ShlHigh(m.A, n), allBits)]

\* c.K = c.M[c.S.Hi()]
Fetch(m) == [m EXCEPT !.K = At(m.M, StoreAddr(m.S))]

\* A variant of DestS that leaves K as Step fetched it
DestSNoFetch(m, src) == [m EXCEPT !.S = src]

\* A variant of DestS that adds src to S
DestSRelative(m, src) == Fetch([m EXCEPT !.S = m.S + src])

\* case 23 (S): c.S = src, then fetch
DestS(m, src) == Fetch([m EXCEPT !.S = src])

\* A variant of DestPS that leaves K as Step fetched it
DestPSNoFetch(m, src) == [m EXCEPT !.S = m.S + src]

\* case 24 (PS): c.S += src, then fetch
DestPS(m, src) == Fetch([m EXCEPT !.S = m.S + src])

\* The two groups of bits case 25 tests: p1-p11 and p15-p20
csLowGroup == 2047
csHighGroup == 1032192

\* A variant of DestCS whose first group is p1-p10
DestCSLow10(m, src) ==
    LET s1 == IF BitAnd(src, lo10) # 0 THEN m.S + P(11) ELSE m.S
        s2 == IF BitAnd(src, csHighGroup) # 0 THEN s1 + P(11) ELSE s1
    IN  Fetch([m EXCEPT !.S = s2])

\* case 25 (CS): one P(11) more for each group of src that is not zero, then
\* fetch
DestCS(m, src) ==
    LET s1 == IF BitAnd(src, csLowGroup) # 0 THEN m.S + P(11) ELSE m.S
        s2 == IF BitAnd(src, csHighGroup) # 0 THEN s1 + P(11) ELSE s1
    IN  Fetch([m EXCEPT !.S = s2])

\* A variant of DestPK that adds src moved up by ten bits
DestPKUpper(m, src) == [m EXCEPT !.K = BitAnd(m.K + Lo(src) * 1024, allBits)]

\* case 26 (PK): c.K = (c.K + src) & allBits
DestPK(m, src) == [m EXCEPT !.K = BitAnd(m.K + src, allBits)]

\* The machine after WriteDest
DestState(m, inst, src) ==
    LET d == Dest(inst)
    IN  CASE d = 0 -> [m EXCEPT !.M = Put(@, StoreAddr(inst), src)]
          [] d \in {1, 2, 3, 10, 20, 31} -> m
          [] d = 4 -> [m EXCEPT !.A = src]
          [] d = 5 -> [m EXCEPT !.A = BitAnd(m.A + src, allBits)]
          [] d = 6 -> [m EXCEPT !.A = SubMasked(m.A, src)]
          [] d = 7 -> [m EXCEPT !.A = BitAnd(m.A, src)]
          [] d = 8 -> [m EXCEPT !.A = BitOr(m.A, src)]
          [] d = 9 -> [m EXCEPT !.A = BitXor(m.A, src)]
          [] d = 11 -> [m EXCEPT !.B = src]
          [] d = 12 -> DestXB(m, src)
          [] d = 13 -> DestL(m, src)
          [] d = 14 -> [m EXCEPT !.C = src]
          [] d = 15 -> [m EXCEPT !.C = BitAnd(m.C + src, allBits)]
          [] d = 16 -> [m EXCEPT !.C = SubMasked(m.C, src)]
          [] d = 17 -> [m EXCEPT !.D = Put(@, DIndex(inst), src)]
          [] d = 18 -> [m EXCEPT !.D =
                          Put(@, DIndex(inst), BitAnd(At(@, DIndex(inst)) + src, allBits))]
          [] d = 19 -> [m EXCEPT !.D =
                          Put(@, DIndex(inst), SubMasked(At(@, DIndex(inst)), src))]
          [] d = 21 -> [m EXCEPT !.H = Lo(src)]
          [] d = 22 -> [m EXCEPT !.H = Hi(src)]
          [] d = 23 -> DestS(m, src)
          [] d = 24 -> DestPS(m, src)
          [] d = 25 -> DestCS(m, src)
          [] d = 26 -> DestPK(m, src)
          [] d = 27 -> [m EXCEPT !.MA = Put(@, StoreAddr(inst), src)]
          [] d = 28 -> [m EXCEPT !.MB = Put(@, StoreAddr(inst), src)]
          [] d = 29 -> [m EXCEPT !.MC = Put(@, StoreAddr(inst), src)]
          [] d = 30 -> [m EXCEPT !.MD = Put(@, StoreAddr(inst), src)]

\* Whether WriteDest calls a nil function value: case 10 calls c.Loudspeaker
\* without testing it (cases 2 and 3 test their callback first)
CallsNil(m, d) == d = 10 /\ ~m.Loudspeaker

\* The call WriteDest makes to an output callback, <<>> if none
DestCall(m, inst, src) ==
    LET d == Dest(inst)
    IN  CASE d = 2 /\ m.Printer -> << "Printer", src >>
          [] d = 3 /\ m.TapePunch -> << "TapePunch", src >>
          [] d = 10 /\ m.Loudspeaker -> << "Loudspeaker", src >>
          [] OTHER -> << >>

\* What WriteDest returns: ErrStop from case 31 with src != 0, else nil;
\* "panic" when it does not return
DestErr(m, inst, src) ==
    LET d == Dest(inst)
    IN  IF CallsNil(m, d) THEN "panic"
        ELSE IF d = 31 /\ src # 0 THEN "ErrStop"
        ELSE "nil"

\* The array accesses WriteDest makes
DestIdx(m, inst, src) ==
    LET d == Dest(inst)
    IN  CASE d = 0 -> { << "M", StoreAddr(inst) >> }
          [] d \in 17 .. 19 -> { << "D", DIndex(inst) >> }
          [] d \in 23 .. 25 -> { << "M", StoreAddr(DestState(m, inst, src).S) >> }
          [] d = 27 -> { << "MA", StoreAddr(inst) >> }
          [] d = 28 -> { << "MB", StoreAddr(inst) >> }
          [] d = 29 -> { << "MC", StoreAddr(inst) >> }
          [] d = 30 -> { << "MD", StoreAddr(inst) >> }
          [] OTHER -> {}

\* func (c *CSIRAC) WriteDest(inst, src Word) error: the machine afterwards
\* (c), the result (err), the callback call (call), the array accesses (idx)
WriteDest(m, inst, src) ==
    [c |-> DestState(m, inst, src),
     err |-> DestErr(m, inst, src),
     call |-> DestCall(m, inst, src),
     idx |-> DestIdx(m, inst, src)]

(* ------------------------------------------------------------------ *)
(* Step                                                                 *)
(* ------------------------------------------------------------------ *)

\* c.S += P(11); c.K = c.M[c.S.Hi()]
Advance(m) == Fetch([m EXCEPT !.S = m.S + P(11)])

\* A variant of Step that loads K only after WriteDest
StepFetchesLast(m) ==
    LET inst == m.K
        r == ReadSource(m)
        f == [r.c EXCEPT !.S = r.c.S + P(11)]
        w == WriteDest(f, inst, r.val)
    IN  [c |-> IF Dest(inst) = 26 THEN w.c ELSE Fetch(w.c),
         src |-> r.val,
         err |-> w.err,
         call |-> w.call,
         idx |-> r.idx \cup { << "M", StoreAddr(f.S) >> } \cup w.idx]

\* func (c *CSIRAC) Step() error
\*   inst := c.K ; src := c.ReadSource()
\*   c.S += P(11) ; c.K = c.M[c.S.Hi()]
\*   return c.WriteDest(inst, src)
Step(m) ==
    LET inst == m.K
        r == ReadSource(m)
        f == Advance(r.c)
        w == WriteDest(f, inst, r.val)
    IN  [c |-> w.c,
         src |-> r.val,
         err |-> w.err,
         call |-> w.call,
         idx |-> r.idx \cup { << "M", StoreAddr(f.S) >> } \cup w.idx]

(* ------------------------------------------------------------------ *)
(* Machines at construction                                             *)
(* ------------------------------------------------------------------ *)

\* The zero value of the CSIRAC struct
Zero ==
    [A |-> 0, B |-> 0, C |-> 0, H |-> 0, D |-> [i \in DRange |-> 0],
     S |-> 0, K |-> 0, I |-> 0, NA |-> 0, NB |-> 0,
     M |-> [i \in StoreRange |-> 0],
     MA |-> [i \in StoreRange |-> 0], MB |-> [i \in StoreRange |-> 0],
     MC |-> [i \in StoreRange |-> 0], MD |-> [i \in StoreRange |-> 0],
     Printer |-> FALSE, TapePunch |-> FALSE, Loudspeaker |-> FALSE]

\* A main store holding the words of p from cell 0 on, and 0 elsewhere
Load(p) == [i \in StoreRange |-> IF i < Len(p) THEN p[i + 1] ELSE 0]

\* The program of TestCSIRACCountDownLoop
CountDownProgram ==
    << MustParseInstruction(<< 0, 8, "K", "C" >>),
       MustParseInstruction(<< 0, 0, "B", "PA" >>),
       MustParseInstruction(<< 0, 0, "PE", "SC" >>),
       MustParseInstruction(<< 0, 0, "SC", "CS" >>),
       MustParseInstruction(<< 0, 1, "K", "S" >>),
       MustParseInstruction(<< 31, 31, "K", "T" >>) >>

\* The program of TestCSIRACCountUpLoop
CountUpProgram ==
    << MustParseInstruction(<< 31, 23, "K", "C" >>),
       MustParseInstruction(<< 0, 0, "B", "PA" >>),
       MustParseInstruction(<< 0, 0, "PE", "PC" >>),
       MustParseInstruction(<< 0, 0, "SC", "CS" >>),
       MustParseInstruction(<< 0, 0, "PE", "PS" >>),
       MustParseInstruction(<< 31, 27, "K", "PS" >>),
       MustParseInstruction(<< 0, 0, "PS", "T" >>) >>

\* The program of TestCSIRACStrobeLoop
StrobeProgram ==
    << MustParseInstruction(<< 0, 0, "PE", "C" >>),
       MustParseInstruction(<< 0, 0, "B", "PA" >>),
       MustParseInstruction(<< 0, 0, "C", "PC" >>),
       MustParseInstruction(<< 0, 0, "SC", "CS" >>),
       MustParseInstruction(<< 31, 28, "K", "PS" >>),
       MustParseInstruction(<< 0, 0, "PL", "T" >>) >>

Programs == [countdown |-> CountDownProgram, countup |-> CountUpProgram,
             strobe |-> StrobeProgram]

\* The operand pairs <<x, y>> of TestFracMul, and two of them the other way
\* round
FracMulOperands ==
    { << 262144, 262144 >>, << 262144, 786432 >>, << 786432, 786432 >>,
      << 393216, 262144 >>, << 393216, 393216 >>, << 524287, 524287 >>,
      << 786432, 262144 >>, << 262144, 393216 >> }

\* A program that multiplies x by y into the cleared A: C = M[3], then M[4]
\* to XB, then stop
FracMulProgram(x, y) ==
    << MustParseInstruction(<< 0, 3, "M", "C" >>),
       MustParseInstruction(<< 0, 4, "M", "XB" >>),
       MustParseInstruction(<< 0, 0, "PS", "T" >>),
       y,
       x >>

\* Pairs <<A, B>> for the rotation program
RotateOperands ==
    { << 1, 524288 >>, << 1048575, 0 >>, << 0, 1048575 >>, << 699050, 209715 >> }

\* A program that sends the word v of cell 2 to destination L, then stops
RotateProgram(v) ==
    << MustParseInstruction(<< 0, 2, "M", "L" >>),
       MustParseInstruction(<< 0, 0, "PS", "T" >>),
       v >>

\* Register values r and source values v for the add and subtract program
AddSubOperands == {0, 1, 524288, 1048575, 699050}

\* A program that adds the word v of cell 13 into a register and subtracts
\* it again, then subtracts it and adds it again, for A, for C and for D[13]
AddSubProgram(v) ==
    << MustParseInstruction(<< 0, 13, "M", "PA" >>),
       MustParseInstruction(<< 0, 13, "M", "SA" >>),
       MustParseInstruction(<< 0, 13, "M", "SA" >>),
       MustParseInstruction(<< 0, 13, "M", "PA" >>),
       MustParseInstruction(<< 0, 13, "M", "PC" >>),
       MustParseInstruction(<< 0, 13, "M", "SC" >>),
       MustParseInstruction(<< 0, 13, "M", "SC" >>),
       MustParseInstruction(<< 0, 13, "M", "PC" >>),
       MustParseInstruction(<< 0, 13, "M", "PD" >>),
       MustParseInstruction(<< 0, 13, "M", "SD" >>),
       MustParseInstruction(<< 0, 13, "M", "SD" >>),
       MustParseInstruction(<< 0, 13, "M", "PD" >>),
       MustParseInstruction(<< 0, 0, "PS", "T" >>),
       v >>

\* Source values v for the half-register program
HalfOperands == {0, 1023, 1024, 524289, 1048575, 699050, 1047552}

\* A program that sends the word v of cell 7 to HL and reads H back through
\* HL and HU, then sends v to HU and reads H back through HU and HL
HalfProgram(v) ==
    << MustParseInstruction(<< 0, 7, "M", "HL" >>),
       MustParseInstruction(<< 0, 0, "HL", "A" >>),
       MustParseInstruction(<< 0, 0, "HU", "B" >>),
       MustParseInstruction(<< 0, 7, "M", "HU" >>),
       MustParseInstruction(<< 0, 0, "HU", "C" >>),
       MustParseInstruction(<< 0, 0, "HL", "A" >>),
       MustParseInstruction(<< 0, 0, "PS", "T" >>),
       v >>

\* The machine holding program p, as the tests construct it but with the
\* registers left zero
ProgramMachine(p) ==
    LET m == [Zero EXCEPT !.M = Load(p)]
    IN  [m EXCEPT !.K = m.M[0]]

\* The machine the three tests construct: A: 13, B: 47, M: the program, and
\* then c.K = c.M[0]
TestMachine(p) ==
    LET m == [Zero EXCEPT !.A = 13, !.B = 47, !.M = Load(p)]
    IN  [m EXCEPT !.K = m.M[0]]

\* "0 0 PS T": stop
StopInstruction == MustParseInstruction(<< 0, 0, "PS", "T" >>)

\* Register and store contents for single-instruction programs.  Each gives
\* the registers, the switches, the cell the instruction sits in (the upper
\* half of S), the upper half of the instruction (hi) and whether the output
\* callbacks are set.
Profiles ==
    << [A |-> 262144, B |-> 786432, C |-> 262144, H |-> 341,
        S |-> 0, hi |-> 1, I |-> 14336, NA |-> 524289, NB |-> 393216,
        d |-> 65537, data |-> 14336, sinks |-> FALSE],
       [A |-> 786432, B |-> 262144, C |-> 786432, H |-> 1023,
        S |-> 1047552, hi |-> 1023, I |-> 2048, NA |-> 16384, NB |-> 1048575,
        d |-> 524288, data |-> 1034239, sinks |-> TRUE],
       [A |-> 524287, B |-> 1048575, C |-> 524287, H |-> 0,
        S |-> 5123, hi |-> 21, I |-> 0, NA |-> 7, NB |-> 524287,
        d |-> 1048575, data |-> 16385, sinks |-> TRUE] >>

\* A main store full of stops, and four disks with a different word in every
\* cell
StopStore == [i \in StoreRange |-> StopInstruction]
DiskA == [i \in StoreRange |-> i * 1025]
DiskB == [i \in StoreRange |-> i]
DiskC == [i \in StoreRange |-> signBit + i]
DiskD == [i \in StoreRange |-> allBits - i]

\* The machine holding the one instruction inst under profile q: the
\* instruction sits in the cell S points to and is in K, the next cell holds a
\* data word and every other cell of the main store a stop
ProbeMachine(q, inst) ==
    [A |-> q.A, B |-> q.B, C |-> q.C, H |-> q.H,
     D |-> [i \in DRange |-> (q.d + i * 4097) % (allBits + 1)],
     S |-> q.S, K |-> inst, I |-> q.I, NA |-> q.NA, NB |-> q.NB,
     M |-> [StopStore EXCEPT ![(Hi(q.S) + 1) % 1024] = q.data, ![Hi(q.S)] = inst],
     MA |-> DiskA, MB |-> DiskB, MC |-> DiskC, MD |-> DiskD,
     Printer |-> q.sinks, TapePunch |-> q.sinks, Loudspeaker |-> q.sinks]

(* ------------------------------------------------------------------ *)
(* Run                                                                  *)
(* ------------------------------------------------------------------ *)

\* The registers of machine m (everything but the five stores and the
\* callbacks)
Registers(m) ==
    [A |-> m.A, B |-> m.B, C |-> m.C, H |-> m.H, D |-> m.D, S |-> m.S, K |-> m.K,
     I |-> m.I, NA |-> m.NA, NB |-> m.NB]

\* The state before Run is called on machine m
Start(m, name, per, tr) ==
    /\ c = m
    /\ pre = Registers(m)
    /\ sent = 0
    /\ idx = {}
    /\ err = "none"
    /\ out = << >>
    /\ traceOut = << >>
    /\ period = per
    /\ trace = tr
    /\ pc = "running"
    /\ ret = "none"
    /\ steps = 0
    /\ prog = name

\* Run is called on the machine of one of the three tests, free-running
\* (period 0) or paced (period 1), with or without trace
InitTests ==
    \E name \in DOMAIN Programs, per \in {0, 1}, tr \in BOOLEAN :
        Start(TestMachine(Programs[name]), name, per, tr)

\* Run is called on a machine holding one instruction, every source with
\* every destination
InitProbes ==
    \E q \in 1 .. Len(Profiles), s \in 0 .. 31, d \in 0 .. 31 :
        Start(ProbeMachine(Profiles[q], Shl(Profiles[q].hi, 10) + Shl(s, 5) + d),
              "probe", 0, FALSE)

\* Run is called on a machine holding a multiplication program
InitFracMul ==
    \E xy \in FracMulOperands :
        Start(ProgramMachine(FracMulProgram(xy[1], xy[2])), "fracmul", 0, FALSE)

\* Run is called on a machine holding a rotation program, for every shift
\* count the word in cell 2 can ask for, with bit 20 of that word set or clear
InitRotate ==
    \E ab \in RotateOperands, n \in 1 .. 16, sign \in {0, signBit} :
        Start([ProgramMachine(RotateProgram(sign + (n - 1) * 2048))
                    EXCEPT !.A = ab[1], !.B = ab[2]],
              "rotate", 0, FALSE)

\* Run is called on a machine holding the add and subtract program, with r
\* in A, C, D[13] and on the switches NB
InitAddSub ==
    \E r \in AddSubOperands, v \in AddSubOperands :
        Start([ProgramMachine(AddSubProgram(v))
                    EXCEPT !.A = r, !.C = r, !.D[13] = r, !.NB = r],
              "addsub", 0, FALSE)

\* Run is called on a machine holding the half-register program
InitHalf ==
    \E v \in HalfOperands, h \in {0, 1023} :
        Start([ProgramMachine(HalfProgram(v)) EXCEPT !.H = h], "half", 0, FALSE)

Init == InitTests \/ InitFracMul \/ InitProbes \/ InitRotate \/ InitAddSub \/ InitHalf

\* A variant of String that leaves H out of the line
StringWithoutH(m) ==
    [K |-> WordString(m.K), S |-> WordString(m.S), A |-> WordString(m.A),
     B |-> WordString(m.B), C |-> WordString(m.C), H |-> << >>,
     inst |-> InstructionString(m.K)]

\* func (c *CSIRAC) String() string:
\*   fmt.Sprintf("K:%v\tS:%v\nA:%v\tB:%v\tC:%v\tH:%v\n%s\n",
\*       c.K, c.S, c.A, c.B, c.C, c.H, c.K.InstructionString())
\* The line as its seven values; %v prints a Word through Word.String.
String(m) ==
    [K |-> WordString(m.K), S |-> WordString(m.S), A |-> WordString(m.A),
     B |-> WordString(m.B), C |-> WordString(m.C), H |-> WordString(m.H),
     inst |-> InstructionString(m.K)]

\* The Step is followed only while S stays below WordCap
StepFits(m) == Step(m).c.S < WordCap

\* A variant of RunReturn that passes every error on
RunReturnAny(e) == e

\* What Run returns for the non-nil error e of Step:
\*   if errors.Is(err, ErrStop) { return nil }
\*   return err
RunReturn(e) == IF e = "ErrStop" THEN "nil" ELSE e

\* Run is in one of its loops and its next Step is within the bounds of the
\* model
CanStep == pc = "running" /\ steps < MaxSteps /\ StepFits(c)

\* One iteration of either loop of Run:
\*   if trace { fmt.Println(c) }
\*   if err := c.Step(); err != nil {
\*       if errors.Is(err, ErrStop) { return nil }
\*       return err
\*   }
Iterate ==
    /\ CanStep
    /\ LET r == Step(c)
       IN  /\ c' = r.c
           /\ pre' = Registers(c)
           /\ sent' = r.src
           /\ idx' = r.idx
           /\ err' = r.err
           /\ out' = IF r.call = << >> THEN out ELSE Append(out, r.call)
           /\ traceOut' = IF trace THEN String(c) ELSE traceOut
           /\ pc' = CASE r.err = "nil" -> "running"
                      [] r.err = "panic" -> "panicked"
                      [] OTHER -> "returned"
           /\ ret' = IF r.err \in {"nil", "panic"} THEN ret ELSE RunReturn(r.err)
           /\ steps' = steps + 1
    /\ UNCHANGED << period, trace, prog >>

\* period <= 0: for { ... }
RunFree == period <= 0 /\ Iterate

\* A variant of RunPaced that returns the error of Step as it is
RunPacedPassesStop ==
    /\ period > 0
    /\ CanStep
    /\ LET r == Step(c)
       IN  /\ c' = r.c
           /\ pre' = Registers(c)
           /\ sent' = r.src
           /\ idx' = r.idx
           /\ err' = r.err
           /\ out' = IF r.call = << >> THEN out ELSE Append(out, r.call)
           /\ traceOut' = IF trace THEN String(c) ELSE traceOut
           /\ pc' = CASE r.err = "nil" -> "running"
                      [] r.err = "panic" -> "panicked"
                      [] OTHER -> "returned"
           /\ ret' = IF r.err \in {"nil", "panic"} THEN ret ELSE r.err
           /\ steps' = steps + 1
    /\ UNCHANGED << period, trace, prog >>

\* period > 0: for range ticker.C { ... }, one iteration for each tick
RunPaced == period > 0 /\ Iterate

RECURSIVE FreeRunning(_, _)
\* The first loop of Run (period <= 0) on machine m without trace, after n
\* iterations or at its return if that comes earlier: the machine (c), where
\* Run is (pc) and what it returned (ret)
FreeRunning(m, n) ==
    IF n = 0 THEN [c |-> m, pc |-> "running", ret |-> "none"]
    ELSE LET p == FreeRunning(m, n - 1)
         IN  IF p.pc # "running" THEN p
             ELSE LET r == Step(p.c)
                  IN  [c |-> r.c,
                       pc |-> CASE r.err = "nil" -> "running"
                                [] r.err = "panic" -> "panicked"
                                [] OTHER -> "returned",
                       ret |-> IF r.err \in {"nil", "panic"} THEN p.ret
                               ELSE RunReturn(r.err)]

Next == RunFree \/ RunPaced

Spec == Init /\ [][Next]_vars

(* ------------------------------------------------------------------ *)
(* Properties                                                           *)
(* ------------------------------------------------------------------ *)

TwoTo20 == 2 ^ 20

\* The last Step executed an instruction with destination d
Executed(d) == steps > 0 /\ (pre.K % 32) = d

\* The cell of the main store S points to
Pointed == c.M[(c.S \div 1024) % 1024]

\* A as WriteDest found it in the last Step: source 9 has cleared it
AIn == IF (pre.K \div 32) % 32 = 9 THEN 0 ELSE pre.A

\* The last Step executed destination 31 with a nonzero source value
Stopped == Executed(31) /\ sent # 0

\* C1: once a Step has executed destination 31 with a nonzero source value,
\* Run has returned nil and takes no further step; Run never returns ErrStop.
C1_StopIsFinal ==
    /\ Stopped => (pc = "returned" /\ ret = "nil" /\ ~ENABLED Next)
    /\ ret # "ErrStop"

C1_Witness == Stopped /\ pc = "returned" /\ period > 0

\* Run on program name comes to its stop: it never executes more than n
\* Steps, while it is running its next Step is taken (every iteration of
\* either loop is enabled when CanStep holds), and when it is not running it
\* has executed n Steps and returned nil with A = 13 + 9 * 47.
RunsToStop(name, n) ==
    prog = name =>
        /\ steps <= n
        /\ pc = "running" => CanStep
        /\ pc # "running" =>
            (pc = "returned" /\ ret = "nil" /\ steps = n /\ c.A = 13 + 9 * 47)

\* C2: Run on the count-down program reaches the stop (after 37 Steps) and
\* returns nil with A = 436.
C2_CountDown == RunsToStop("countdown", 37)

C2_Witness == prog = "countdown" /\ pc = "returned" /\ ret = "nil" /\ c.A = 436

\* C3: Run on the count-up program reaches the stop (after 38 Steps) and
\* returns nil with A = 436, and every execution of its backward jump
\* "31 27 K PS" leaves S pointing to cell 1 and K holding the word of cell 1.
C3_CountUp ==
    /\ RunsToStop("countup", 38)
    /\ (prog = "countup" /\ steps > 0 /\ pre.K = CountUpProgram[6])
            => ((c.S \div 1024) % 1024 = 1 /\ c.K = CountUpProgram[2])

C3_Witness ==
    /\ prog = "countup" /\ steps > 0 /\ pre.K = CountUpProgram[6]
    /\ c.S >= TwoTo20 /\ c.K = CountUpProgram[2]

\* C4: Run on the strobe program reaches the stop (after 37 Steps) and
\* returns nil with A = 436; C starts at P(11), every execution of
\* "0 0 C PC" doubles it, and when Run has returned C is the sign bit alone.
C4_Strobe ==
    /\ RunsToStop("strobe", 37)
    /\ (prog = "strobe" /\ steps = 1) => c.C = 1024
    /\ (prog = "strobe" /\ steps > 0 /\ pre.K = StrobeProgram[3])
            => (c.C = 2 * pre.C /\ pre.C < 524288)
    /\ (prog = "strobe" /\ pc = "returned") => c.C = 524288

C4_Witness ==
    prog = "strobe" /\ pc = "returned" /\ ret = "nil" /\ c.A = 436 /\ c.C = 524288

\* C5: a Step that executes destination 25 advances S by one unit of 1024,
\* by one more if its source value has a bit in p1-p11 and by one more if it
\* has a bit in p15-p20, whatever its bits p12-p14; then K is the cell S
\* points to.
C5_ConditionalIncrement ==
    Executed(25) =>
        LET low == (sent % 2048) # 0
            high == ((sent \div 16384) % 64) # 0
            units == 1 + (IF low THEN 1 ELSE 0) + (IF high THEN 1 ELSE 0)
        IN  /\ c.S = pre.S + units * 1024
            /\ c.K = Pointed

C5_Witness == Executed(25) /\ sent = 524289 /\ c.S = pre.S + 3072

\* floor(x * y / 2^19) and (x * y) mod 2^19 for x, y below 2^19, through the
\* two halves of y
Quot19(x, y) ==
    LET u == x * (y \div 1024)
        w == x * (y % 1024)
    IN  (u \div 512) + (((u % 512) * 1024 + w) \div 524288)

Rem19(x, y) ==
    LET u == x * (y \div 1024)
        w == x * (y % 1024)
    IN  ((u % 512) * 1024 + w) % 524288

\* C6: a Step that executes destination 12 with the 20-bit value v and the
\* 20-bit C adds to A the XOR of the two sign bits (at bit 20) and the top
\* 19 bits of the 38-bit product of the two magnitudes, modulo 2^20, leaves
\* in B the bottom 19 bits times two, and leaves C; with A = 0,
\* 1/2 * 1/2 = 1/4, 1/2 * -1/2 = -1/4, -1/2 * -1/2 = 1/4 and
\* 0x7FFFF * 0x7FFFF = 0x7FFFE.
C6_Multiply ==
    (Executed(12) /\ sent < TwoTo20 /\ pre.C < TwoTo20) =>
        LET x == sent % 524288
            y == pre.C % 524288
            sign == IF (sent \div 524288) # (pre.C \div 524288) THEN 524288 ELSE 0
        IN  /\ c.A = (AIn + sign + Quot19(x, y)) % TwoTo20
            /\ c.B = Rem19(x, y) * 2
            /\ c.C = pre.C
            /\ (AIn = 0 /\ sent = 262144 /\ pre.C = 262144) => c.A = 131072
            /\ (AIn = 0 /\ sent = 262144 /\ pre.C = 786432) => c.A = 655360
            /\ (AIn = 0 /\ sent = 786432 /\ pre.C = 786432) => c.A = 131072
            /\ (AIn = 0 /\ sent = 524287 /\ pre.C = 524287) => c.A = 524286

C6_Witness ==
    /\ Executed(12) /\ AIn = 0
    /\ sent = 786432 /\ pre.C = 786432 /\ c.A = 131072 /\ c.B = 0

\* The last Step wrote to an output destination whose callback is unset
UnsetSink ==
    \/ Executed(2) /\ ~c.Printer
    \/ Executed(3) /\ ~c.TapePunch
    \/ Executed(10) /\ ~c.Loudspeaker

\* C7: a Step that executes destination 2, 3 or 10 with the callback unset
\* does not fail: WriteDest returns nil, and the registers are as the source
\* read and the advance of S left them.
C7_UnsetSinkIsNoOp ==
    UnsetSink =>
        /\ err = "nil"
        /\ pc # "panicked"
        /\ out = << >>
        /\ c.A = AIn /\ c.B = pre.B /\ c.C = pre.C /\ c.H = pre.H /\ c.D = pre.D
        /\ c.S = pre.S + 1024
        /\ c.K = Pointed

\* C8: after every Step whose destination is not 26, K is the cell of the
\* main store that S points to.
C8_KIsPointed ==
    (steps > 0 /\ ~Executed(26)) => c.K = Pointed

\* C9: every register and every cell of every store stays below 2^20.
C9_TwentyBits ==
    /\ c.A < TwoTo20 /\ c.B < TwoTo20 /\ c.C < TwoTo20 /\ c.H < TwoTo20
    /\ c.S < TwoTo20 /\ c.K < TwoTo20
    /\ \A i \in DRange : c.D[i] < TwoTo20
    /\ \A i \in StoreRange :
        /\ c.M[i] < TwoTo20 /\ c.MA[i] < TwoTo20 /\ c.MB[i] < TwoTo20
        /\ c.MC[i] < TwoTo20 /\ c.MD[i] < TwoTo20

\* C10: every array access a Step makes is in range: 0..15 for D, 0..1023 for
\* the five stores.
C10_AccessesInRange ==
    \A a \in idx : IF a[1] = "D" THEN a[2] \in 0 .. 15 ELSE a[2] \in 0 .. 1023

C10_Witness ==
    /\ steps > 0 /\ (pre.K \div 1024) % 1024 = 1023
    /\ << "D", 15 >> \in idx /\ << "M", 0 >> \in idx /\ c.S >= TwoTo20

\* C11: a Step returns ErrStop exactly when it executed destination 31 with
\* a nonzero source value; every other Step returns nil and Run goes on; no
\* other error is produced and Run never returns a non-nil error.
C11_OnlyStopEnds ==
    steps > 0 =>
        /\ (err = "ErrStop") <=> Stopped
        /\ ~Stopped => (err = "nil" /\ pc = "running")
        /\ err \in {"nil", "ErrStop"}
        /\ ret \in {"none", "nil"}

\* The 20-bit words in the registers of the machine, and the last word sent
WordsInRegisters ==
    { w \in {c.A, c.B, c.C, c.H, c.K, c.S, sent} \cup { c.D[i] : i \in DRange } :
        w < TwoTo20 }

\* C12: for every 20-bit word w, Hi(w) is bits 11-20 and Lo(w) bits 1-10 of
\* w, and (Hi(w) << 10) | Lo(w) is w again.
C12_HalvesRoundTrip ==
    \A w \in WordsInRegisters :
        /\ Hi(w) = (w \div 1024) % 1024
        /\ Lo(w) = w % 1024
        /\ BitOr(Shl(Hi(w), 10), Lo(w)) = w

C12_Witness ==
    /\ Executed(21) /\ sent = 524289 /\ c.H = 1
    /\ Hi(sent) = 512 /\ 524289 \in WordsInRegisters

\* The signed decimal of the 20-bit word w: w itself below the sign bit,
\* w - 2^20 from the sign bit on
SignedDecimal(w) ==
    IF w < 524288 THEN Decimal(w) ELSE << "-" >> \o Decimal(TwoTo20 - w)

\* C13: Word.String renders a word as its signed decimal: every 20-bit
\* register the trace line prints through it reads as the decimal of w, or of
\* w - 2^20 when bit 20 is set.
C13_SignedDecimal ==
    (trace /\ steps > 0) =>
        /\ traceOut.K = SignedDecimal(pre.K)
        /\ traceOut.A = SignedDecimal(pre.A)
        /\ traceOut.B = SignedDecimal(pre.B)
        /\ traceOut.C = SignedDecimal(pre.C)
        /\ traceOut.H = SignedDecimal(pre.H)

\* C14: from the same machine, Run with period <= 0 and Run with period > 0
\* execute the same Steps: after any number of Steps either of them is where
\* the free-running loop is after that many iterations, with the same
\* machine, and when the stop is reached both have returned nil.
C14_ModesAgree ==
    prog \in DOMAIN Programs =>
        LET f == FreeRunning(TestMachine(Programs[prog]), steps)
        IN  /\ c = f.c /\ pc = f.pc /\ ret = f.ret
            /\ pc = "returned" => ret = "nil"

C14_Witness ==
    /\ prog = "strobe" /\ period > 0 /\ pc = "returned" /\ ret = "nil"
    /\ c = FreeRunning(TestMachine(StrobeProgram), 37).c

\* C15: tracing never changes execution: every iteration of Run, with or
\* without trace, takes the machine to the state Step gives for it and
\* returns what Step's result gives; with trace the line printed holds K, S,
\* A, B, C and H of the machine before the Step (and K as an instruction) and
\* nothing else, and without trace nothing is printed.
C15_TraceIsReadOnly ==
    [][LET r == Step(c)
       IN  /\ c' = r.c
           /\ err' = r.err
           /\ pc' = (CASE r.err = "nil" -> "running"
                       [] r.err = "panic" -> "panicked"
                       [] OTHER -> "returned")
           /\ ret' = (IF r.err = "ErrStop" THEN "nil" ELSE ret)
           /\ traceOut' =
                (IF trace
                 THEN [K |-> WordString(c.K), S |-> WordString(c.S),
                       A |-> WordString(c.A), B |-> WordString(c.B),
                       C |-> WordString(c.C), H |-> WordString(c.H),
                       inst |-> InstructionString(c.K)]
                 ELSE << >>)]_vars

C15_Witness ==
    /\ trace /\ prog = "countdown" /\ pc = "returned" /\ ret = "nil"
    /\ traceOut.inst = << "3", "1", " ", "3", "1", " ", " ", "K", " ", " ", "T" >>
    /\ traceOut.A = WordString(436)

\* The profile of the single-instruction machine whose S is s
ProfileAt(s) == CHOOSE q \in { Profiles[i] : i \in 1 .. Len(Profiles) } : q.S = s

\* C16: within a Step the source is read from the machine as it was before
\* the Step (source S gives the S of before the increment, sources A, B, C
\* and K the registers of before), then S is advanced by P(11) and K loaded
\* from the new address, and only then the destination is written: a write of
\* destination 0 leaves K as it was fetched, even when it changes the cell K
\* was fetched from.
C16_StepOrder ==
    steps > 0 =>
        LET s == (pre.K \div 32) % 32
            d == pre.K % 32
        IN  /\ s = 23 => sent = pre.S
            /\ s = 4 => sent = pre.A
            /\ s = 11 => sent = pre.B
            /\ s = 14 => sent = pre.C
            /\ (s = 26 /\ pre.K < TwoTo20) => sent = (pre.K \div 1024) * 1024
            /\ d \notin 23 .. 25 => c.S = pre.S + 1024
            /\ d \notin {0, 23, 24, 25, 26} => c.K = Pointed
            /\ (s = 23 /\ d = 4) => c.A = pre.S
            /\ (prog = "probe" /\ steps = 1 /\ d = 0) =>
                    /\ c.K = ProfileAt(pre.S).data
                    /\ c.M[(pre.K \div 1024) % 1024] = sent

C16_Witness ==
    /\ prog = "probe" /\ steps = 1 /\ Executed(0) /\ pre.S = 0
    /\ sent = 262144 /\ c.K = 14336 /\ Pointed = 262144

\* The last Step executed destination 13 with bit 20 of its source value set
Rotated == Executed(13) /\ sent < TwoTo20 /\ sent >= 524288

\* The high half of the 40-bit word hi:lo rotated left by n, 1 <= n <= 19: it
\* is the low half of the rotation of lo:hi
RotateHigh(hi, lo, n) == (hi % (2 ^ (20 - n))) * (2 ^ n) + (lo \div (2 ^ (20 - n)))

\* C17: a Step that executes destination 13 with bit 20 of the source value
\* v set leaves in A and B the two halves of the 40-bit word A:B rotated
\* left by n = ((Hi(v) >> 1) & 0xF) + 1, for every n.
C17_RotateLeft ==
    Rotated =>
        LET n == ((sent \div 2048) % 16) + 1
        IN  /\ c.A = RotateHigh(AIn, pre.B, n)
            /\ c.B = RotateHigh(pre.B, AIn, n)

\* C18: the shift count of destination 13 is between 1 and 7 for every
\* source value with bit 20 set.
C18_ShiftCountRange == Rotated => ShiftCount(sent) \in 1 .. 7

\* C19: after a Step that executes destination 23 with source value v, S is
\* v (nothing of the increment made earlier in the Step is left) and K is the
\* cell Hi(v) of the main store.
C19_AbsoluteJump ==
    Executed(23) =>
        /\ c.S = sent
        /\ c.K = c.M[(sent \div 1024) % 1024]

C19_Witness ==
    /\ Executed(23) /\ pre.S = 5123 /\ sent = 7 /\ c.S = 7
    /\ c.K = c.M[0]

\* C20: after a Step from S0 that executes destination 24 with source value
\* v, S is (S0 + P(11) + v) mod 2^20 and K is the cell S points to.
C20_RelativeJump ==
    Executed(24) =>
        /\ c.S = (pre.S + 1024 + sent) % TwoTo20
        /\ c.K = Pointed

\* C21 as the specification states it: destination 26 leaves in K the
\* fetched word plus the source value moved up by ten bits, modulo 2^20 (only
\* the low ten bits of the value can count in such a sum).
C21_AddsShifted ==
    [][(c.K % 32 = 26) =>
            c'.K = (c.M[((c.S + 1024) \div 1024) % 1024] + (sent' % 1024) * 1024) % TwoTo20]_vars

\* C21: a Step from S0 that executes destination 26 with source value v
\* leaves S = S0 + P(11), leaves the main store as it was, and leaves in K
\* the word fetched from the cell S points to plus v itself, modulo 2^20.
C21_AddsIntoK ==
    [][(c.K % 32 = 26) =>
            /\ c'.S = c.S + 1024
            /\ c'.M = c.M
            /\ c'.K = (c.M[(c'.S \div 1024) % 1024] + sent') % TwoTo20]_vars

C21_Witness ==
    /\ Executed(26) /\ pre.S = 0 /\ sent = 524289 /\ c.S = 1024
    /\ Pointed = 14336 /\ c.K = 538625

\* C22 as the specification states it: source 26 gives the upper half of the
\* instruction right-justified, a value up to 1023, and source 23 gives S, a
\* 20-bit value.
C22_TransmitsHi ==
    steps > 0 =>
        /\ (pre.K \div 32) % 32 = 26 =>
                (sent = (pre.K \div 1024) % 1024 /\ sent <= 1023)
        /\ (pre.K \div 32) % 32 = 23 => (sent = pre.S /\ sent < TwoTo20)

\* C22: source 26 transmits the instruction with its lower ten bits cleared
\* (the upper half stays in bits 11-20), and source 23 transmits S as it
\* stands.
C22_TransmitsUpperHalf ==
    steps > 0 =>
        /\ ((pre.K \div 32) % 32 = 26 /\ pre.K < TwoTo20) =>
                (sent = pre.K - (pre.K % 1024) /\ sent % 1024 = 0)
        /\ (pre.K \div 32) % 32 = 23 => sent = pre.S

C22_Witness ==
    /\ steps > 0 /\ (pre.K \div 32) % 32 = 26 /\ (pre.K \div 1024) = 1023
    /\ sent = 1047552

\* The effects that show which fields of the executed word selected the
\* source (s), the destination (d) and the operand (n)
DecodedAs(s, d, n) ==
    /\ (s = 25 /\ d = 4) => c.A = 1
    /\ (s = 24 /\ d = 11) => c.B = 1024
    /\ s = 0 => << "M", n >> \in idx
    /\ d = 0 => c.M[n] = sent
    /\ d = 17 => c.D[n % 16] = sent
    /\ d = 27 => c.MA[n] = sent

\* C23 as the specification states it: the destination is bits 16-20, the
\* source bits 11-15 and the operand bits 1-10 of the executed word.
C23_TopBitsSelect ==
    (steps > 0 /\ pre.K < TwoTo20) =>
        /\ Dest(pre.K) = pre.K \div 32768
        /\ Source(pre.K) = (pre.K \div 1024) % 32
        /\ DecodedAs((pre.K \div 1024) % 32, pre.K \div 32768, pre.K % 1024)

\* C23: when a word is executed as an instruction its destination selector
\* is bits 1-5, its source selector bits 6-10 and its operand bits 11-20.
C23_LowBitsSelect ==
    (steps > 0 /\ pre.K < TwoTo20) =>
        /\ Dest(pre.K) = pre.K % 32
        /\ Source(pre.K) = (pre.K \div 32) % 32
        /\ Hi(pre.K) = pre.K \div 1024
        /\ DecodedAs((pre.K \div 32) % 32, pre.K % 32, pre.K \div 1024)

C23_Witness ==
    /\ steps = 1 /\ pre.K = 21 * 1024 + 25 * 32 + 4 /\ c.A = 1
    /\ pre.A = 524287

\* The source selector of the instruction the last Step executed, and the D
\* register its operand names, as that register was before the Step
SourceExecuted == (pre.K \div 32) % 32
DExecuted == pre.D[(pre.K \div 1024) % 16]

\* The sign bit of the 20-bit word w, in its place
SignOf(w) == (w \div 524288) * 524288

\* C24: sources 5, 15 and 18 transmit the sign bit of A, C and the indexed D
\* register where it stands (0 or 2^19), source 12 the sign bit of B as 0 or
\* 1; the register read is not changed by the read (seen when the
\* destination is the null destination 20).
C24_SignSources ==
    steps > 0 =>
        /\ SourceExecuted = 5 => (sent = SignOf(pre.A) /\ sent \in {0, 524288})
        /\ SourceExecuted = 15 => (sent = SignOf(pre.C) /\ sent \in {0, 524288})
        /\ SourceExecuted = 18 => (sent = SignOf(DExecuted) /\ sent \in {0, 524288})
        /\ SourceExecuted = 12 => (sent = pre.B \div 524288 /\ sent \in {0, 1})
        /\ (SourceExecuted \in {5, 12, 15, 18} /\ Executed(20)) =>
                (c.A = pre.A /\ c.B = pre.B /\ c.C = pre.C /\ c.D = pre.D)

C24_Witness ==
    /\ steps > 0 /\ SourceExecuted = 18 /\ Executed(20)
    /\ DExecuted = 585743 /\ sent = 524288 /\ c.D = pre.D

\* C25: source 6 transmits A shifted right by one with the sign bit kept and
\* copied into bit 19, source 7 transmits 2 * A modulo 2^20, and sources 13,
\* 16 and 19 transmit B, C and the indexed D register shifted right by one,
\* with bit 20 zero.
C25_ShiftSources ==
    steps > 0 =>
        /\ SourceExecuted = 6 =>
                /\ sent = (pre.A \div 2) + SignOf(pre.A)
                /\ sent \div 524288 = pre.A \div 524288
                /\ (sent \div 262144) % 2 = pre.A \div 524288
        /\ SourceExecuted = 7 => sent = (pre.A * 2) % TwoTo20
        /\ SourceExecuted = 13 => (sent = pre.B \div 2 /\ sent < 524288)
        /\ SourceExecuted = 16 => (sent = pre.C \div 2 /\ sent < 524288)
        /\ SourceExecuted = 19 => (sent = DExecuted \div 2 /\ sent < 524288)

C25_Witness ==
    steps > 0 /\ SourceExecuted = 6 /\ pre.A = 786432 /\ sent = 917504

NullFor(v) ==
    \/ c.K % 32 \in {1, 20}
    \/ c.K % 32 = 13 /\ (v \div 524288) % 2 = 0
    \/ c.K % 32 = 31 /\ v = 0

\* C27: a Step whose destination is 1 or 20, or 13 with bit 20 of the source
\* value clear, or 31 with a zero source value, returns nil and changes
\* nothing but S, advanced by P(11), K, fetched from the new address, and A
\* when the source is 9.
C27_NullDestinations ==
    [][NullFor(sent') =>
            /\ err' = "nil"
            /\ c' = [c EXCEPT !.S = c.S + 1024,
                              !.K = c.M[((c.S + 1024) \div 1024) % 1024],
                              !.A = IF (c.K \div 32) % 32 = 9 THEN 0 ELSE c.A]]_vars

C27_Witness ==
    /\ prog = "rotate" /\ steps = 1 /\ Executed(13) /\ sent = 30720
    /\ c.A = 699050 /\ c.B = 209715 /\ err = "nil"

\* C28: a Step changes the main store only by destination 0, and then only
\* the cell the upper half of the instruction names, which receives the
\* source value; it changes disk MA, MB, MC or MD only by destination 27, 28,
\* 29 or 30, in the same way.
C28_StoresFrame ==
    [][LET d == c.K % 32
           n == (c.K \div 1024) % 1024
       IN  /\ c'.M = (IF d = 0 THEN [c.M EXCEPT ![n] = sent'] ELSE c.M)
           /\ c'.MA = (IF d = 27 THEN [c.MA EXCEPT ![n] = sent'] ELSE c.MA)
           /\ c'.MB = (IF d = 28 THEN [c.MB EXCEPT ![n] = sent'] ELSE c.MB)
           /\ c'.MC = (IF d = 29 THEN [c.MC EXCEPT ![n] = sent'] ELSE c.MC)
           /\ c'.MD = (IF d = 30 THEN [c.MD EXCEPT ![n] = sent'] ELSE c.MD)]_vars

C28_Witness ==
    /\ steps = 1 /\ Executed(28) /\ pre.K \div 1024 = 21 /\ sent = 524287
    /\ c.MB = [DiskB EXCEPT ![21] = 524287] /\ c.MA = DiskA /\ c.MC = DiskC

\* (r + v) mod 2^20 and (r - v) mod 2^20 for 20-bit r and v
SumMod(r, v) == (r + v) % TwoTo20
DiffMod(r, v) == (r + TwoTo20 - v) % TwoTo20

\* The value register x of the add and subtract program holds after k of its
\* four Steps (add, subtract, subtract, add), from r with the source value v
AfterAddSub(k, r, v) ==
    CASE k = 1 -> SumMod(r, v)
      [] k = 3 -> DiffMod(r, v)
      [] OTHER -> r

\* C29: adding v into A, C or D[n] and then subtracting it (and subtracting
\* it and then adding it) restores the register; in between the register
\* holds (r + v) mod 2^20 or (r - v) mod 2^20, and no Step fails.
C29_AddSubInverse ==
    (prog = "addsub" /\ steps \in 1 .. 12) =>
        LET r == c.NB
            v == c.M[13]
        IN  /\ err = "nil" /\ pc = "running"
            /\ c.A = (IF steps <= 4 THEN AfterAddSub(steps, r, v) ELSE r)
            /\ c.C = (IF steps <= 4 THEN r
                      ELSE IF steps <= 8 THEN AfterAddSub(steps - 4, r, v) ELSE r)
            /\ c.D[13] = (IF steps <= 8 THEN r ELSE AfterAddSub(steps - 8, r, v))

C29_Witness ==
    /\ prog = "addsub" /\ steps = 12 /\ c.NB = 1 /\ c.M[13] = 1048575
    /\ pre.D[13] = 2 /\ c.D[13] = 1 /\ c.A = 1 /\ c.C = 1

\* C30: H is always below 2^10; after destination 21 with the value v source
\* 21 transmits Lo(v); after destination 22 with the value v source 22
\* transmits v with its lower ten bits cleared and source 21 transmits Hi(v).
C30_HalfRoundTrip ==
    /\ c.H < 1024
    /\ Executed(21) => c.H = sent % 1024
    /\ Executed(22) => c.H = (sent \div 1024) % 1024
    /\ prog = "half" =>
            LET v == c.M[7]
            IN  /\ steps = 2 => sent = v % 1024
                /\ steps = 3 => sent = (v % 1024) * 1024
                /\ steps = 5 => sent = v - (v % 1024)
                /\ steps = 6 => sent = v \div 1024

C30_Witness ==
    /\ prog = "half" /\ steps = 6 /\ c.M[7] = 699050 /\ sent = 682
    /\ c.C = 698368 /\ c.B = 682 * 1024 /\ c.H = 682

\* The words ParseInstruction is given that it must reject, made from the
\* fields of the word w: a first or a second number below 0 or above 31, a
\* source or a destination that is no mnemonic of its table
Rejected(w) ==
    LET f == InstructionFields(w)
    IN  { [f EXCEPT ![1] = 32 + f[1]], [f EXCEPT ![1] = 0 - 1 - f[1]],
          [f EXCEPT ![2] = 32 + f[2]], [f EXCEPT ![2] = 0 - 1 - f[2]],
          [f EXCEPT ![3] = "XB"], [f EXCEPT ![3] = "?"],
          [f EXCEPT ![4] = "I"], [f EXCEPT ![4] = "?"] }

\* C31: the source and the destination table give 32 distinct mnemonics each
\* and the reverse maps are their inverses; every 20-bit word, printed by
\* InstructionString and parsed by ParseInstruction, comes back with no
\* error; a first or second number outside 0..31 and an unknown source or
\* destination mnemonic give an error and the word 0.
C31_CodecRoundTrip ==
    /\ Cardinality({ sourceToMnemonic[i] : i \in 1 .. 32 }) = 32
    /\ Cardinality({ destToMnemonic[i] : i \in 1 .. 32 }) = 32
    /\ DOMAIN mnemonicToSource = { sourceToMnemonic[i] : i \in 1 .. 32 }
    /\ DOMAIN mnemonicToDest = { destToMnemonic[i] : i \in 1 .. 32 }
    /\ \A i \in 0 .. 31 :
        /\ mnemonicToSource[sourceToMnemonic[i + 1]] = i
        /\ mnemonicToDest[destToMnemonic[i + 1]] = i
    /\ \A w \in {c.K, sent} \cap (0 .. TwoTo20 - 1) :
        /\ ParseLine(InstructionString(w)) = [w |-> w, err |-> "nil"]
        /\ \A k \in Rejected(w) :
            ParseInstruction(k).err # "nil" /\ ParseInstruction(k).w = 0

C31_Witness ==
    /\ trace /\ steps > 0 /\ pre.K = CountUpProgram[6]
    /\ traceOut.inst = << "3", "1", " ", "2", "7", " ", " ", "K", " ", "PS" >>
    /\ ParseLine(traceOut.inst) = [w |-> 1044312, err |-> "nil"]
    /\ ParseInstruction(<< 32, 27, "K", "PS" >>).err # "nil"

====
